---- MODULE Spec2Model ----
(***************************************************************************)
(* A model of the three example scripts of the repository:                 *)
(*   ticket_deflection.py            AgentSystem                           *)
(*   examples/adaptive_dashboards.py DynamicContextualReportingSystem      *)
(*   examples/dependency_analyzer.py DynamicDependencyAnalyzer             *)
(* A text (a Python str) is a sequence of one-character strings, so that   *)
(* strip(), upper(), lower() and the `in` substring test are computed on   *)
(* characters.  Each script runs one thread; pc is its position.           *)
(***************************************************************************)
EXTENDS Integers, Sequences, FiniteSets, TLC

VARIABLES
  script,        \* which script's object this process constructed
  config,        \* self.config of the object
  agents,        \* self.agents of the object: the names it maps to agents
  pc,            \* position of the single thread
  user_input,    \* route_and_resolve: the request text
  router_last,   \* content of agents["router"].last_message()
  routing_path,  \* route_and_resolve: local routing_path
  chat,          \* status of each chat: "none", "active" or "done"
  chat_history,  \* messages of the specialist chat in progress
  chat_result,   \* chat_result.chat_history of the finished specialist chat
  result,        \* outcome of the operation: [status, value]
  console,       \* lines printed to the console since the operation was called
  cleared,       \* number of user_proxy.clear_history() calls of the request
  dispatched,    \* an earlier route_and_resolve call: [user_input, reply, handler]
  tool_calls,    \* number of tool invocations made inside the current chat
  tool_ret_pc,   \* where a tool that runs a nested chat returns to
  tool_name,     \* the tool being executed, "" when none
  tool_arg,      \* its argument
  tool_result,   \* what the last executed tool returned
  nested_last,   \* content of the last message of the approval / form filler agent
  toolLog,       \* direct calls of tool functions: [fn, arg, ret, chats, printed]
  request,          \* process_report_request / process_analysis_request: the request
  request_info,     \* the dict given to create_contextual_report
  ccr_locals,       \* create_contextual_report: its local variables, by name
  ccr_ret_pc,       \* where create_contextual_report returns to
  report_history,   \* DynamicContextualReportingSystem.report_history
  history_before,   \* report_history as it was when the operation was called
  user_preferences, \* DynamicContextualReportingSystem.user_preferences
  dependency_cache, \* DynamicDependencyAnalyzer.dependency_cache
  root_cause        \* process_analysis_request: local root_cause

routeVars == <<user_input, router_last, routing_path, chat_history, chat_result,
               cleared>>
toolVars == <<tool_calls, tool_ret_pc, tool_name, tool_arg, tool_result,
              nested_last, toolLog>>

reportVars == <<request_info, ccr_locals, ccr_ret_pc, report_history,
                history_before, user_preferences>>
analyzerVars == <<dependency_cache, root_cause>>

vars == <<script, config, agents, dispatched, pc, chat, result, console, routeVars, toolVars, request,
          reportVars, analyzerVars>>

----------------------------------------------------------------------------
(* Bounds of the model *)

MaxReplyTokens == 2
MaxChatLen == 3
MaxToolCalls == 1
MaxToolLog == 2
MaxRequestTokens == 2
MaxReports == 2

----------------------------------------------------------------------------
(* Texts *)

LowerLetters == <<"a","b","c","d","e","f","g","h","i","j","k","l","m","n","o","p","q","r","s","t","u","v","w","x","y","z">>
UpperLetters == <<"A","B","C","D","E","F","G","H","I","J","K","L","M","N","O","P","Q","R","S","T","U","V","W","X","Y","Z">>
Whitespace == {" ", "\n", "\t"}

LetterIndex(letters, c) == CHOOSE i \in 1..Len(letters) : letters[i] = c

lower_char(c) ==
  IF \E i \in 1..Len(UpperLetters) : UpperLetters[i] = c
  THEN LowerLetters[LetterIndex(UpperLetters, c)] ELSE c

upper_char(c) ==
  IF \E i \in 1..Len(LowerLetters) : LowerLetters[i] = c
  THEN UpperLetters[LetterIndex(LowerLetters, c)] ELSE c

lower_identity(s) == s

lower(s) == [i \in 1..Len(s) |-> lower_char(s[i])]

upper(s) == [i \in 1..Len(s) |-> upper_char(s[i])]

RECURSIVE lstrip(_)
lstrip(s) == IF s # <<>> /\ Head(s) \in Whitespace THEN lstrip(Tail(s)) ELSE s

RECURSIVE rstrip(_)
rstrip(s) ==
  IF s # <<>> /\ s[Len(s)] \in Whitespace THEN rstrip(SubSeq(s, 1, Len(s) - 1)) ELSE s

strip(s) == rstrip(lstrip(s))

\* Python's `needle in hay` on str
Contains(needle, hay) ==
  \E i \in 1..(Len(hay) - Len(needle) + 1) :
     SubSeq(hay, i, i + Len(needle) - 1) = needle

RECURSIVE Concat(_)
Concat(ss) == IF ss = <<>> THEN <<>> ELSE Head(ss) \o Concat(Tail(ss))

kw_human == <<"h","u","m","a","n">>
kw_vpn_agent == <<"v","p","n","_","a","g","e","n","t">>

kw_vpn == <<"v","p","n">>
kw_change == <<"c","h","a","n","g","e">>
kw_complete == <<"c","o","m","p","l","e","t","e">>

TICKET_101 == <<"T","I","C","K","E","T","_","1","0","1">>
UnableToDetermine == <<"U","n","a","b","l","e"," ","t","o"," ","d","e","t","e","r","m","i","n","e"," ","t","h","e"," ","a","p","p","r","o","p","r","i","a","t","e"," ","a","g","e","n","t"," ","f","o","r"," ","y","o","u","r"," ","r","e","q","u","e","s","t",".">>
RaisedTicketLine == "Raised ticket with the human agent. Your ticket id is "

\* The three replies the orchestrator's system message prescribes
ReplyVpn == <<"R","o","u","t","i","n","g"," ","t","o"," ","V","P","N"," ","A","g","e","n","t","."," ","C","o","m","p","l","e","t","e","d">>
ReplyChange == <<"R","o","u","t","i","n","g"," ","t","o"," ","C","h","a","n","g","e"," ","M","a","n","a","g","e","m","e","n","t"," ","A","g","e","n","t","."," ","C","o","m","p","l","e","t","e","d">>
ReplyHuman == <<"R","o","u","t","i","n","g"," ","H","U","M","A","N"," ","A","g","e","n","t","."," ","C","o","m","p","l","e","t","e","d">>
PrescribedReplies == {ReplyVpn, ReplyChange, ReplyHuman}

\* What the router (a hosted model) may actually answer: any short text
ReplyTokens == { <<"H","u","m","a","n">>, <<"v","p","n">>, <<"c","h","a","n","g","e">>,
                 <<"h","u","m">>, <<"a","n">>, <<" ">> }

TokenTexts(tokens, n) ==
  UNION { { Concat(ts) : ts \in [1..k -> tokens] } : k \in 0..n }

RouterReplies == PrescribedReplies \cup TokenTexts(ReplyTokens, MaxReplyTokens)

UserInputs == { <<"n","e","e","d"," ","v","p","n">>,
                <<"h","u","m","a","n"," ","h","e","l","p">> }

\* What a specialist agent (a hosted model) may say in a chat
AgentMessages == { <<"[","C","O","M","P","L","E","T","E","D","]"," ","d","o","n","e">>,
                   <<"[","I","N","C","O","M","P","L","E","T","E","]"," ","n","o">>,
                   <<"w","o","r","k","i","n","g">> }

----------------------------------------------------------------------------
(* State *)

Scripts == {"ticket", "report", "analyzer"}

ChatIds == {"router", "vpn", "change_management", "approval", "form_filler",
            "orchestrator"}
TopLevelChats == {"router", "vpn", "change_management", "orchestrator"}

NoChats == [c \in ChatIds |-> "none"]
NoResult == [status |-> "none", value |-> <<>>]
Returned(v) == [status |-> "returned", value |-> v]

\* _setup_config: {"openai": {"config_list": [...]}}
ConfigOf(scr) == [openai |-> [config_list |-> <<"gpt-4o">>]]

\* _create_agents: the keys of the agents dictionary
AgentsOf(scr) ==
  CASE scr = "ticket" ->
         {"router", "user_proxy", "approval", "form_filler", "vpn", "change_management"}
    [] scr = "report" ->
         {"orchestrator", "user_proxy", "metric_analyst", "narrative_builder"}
    [] scr = "analyzer" ->
         {"orchestrator", "user_proxy", "mapper", "anomaly_detector"}

Init ==
  /\ script \in Scripts
  /\ config = ConfigOf(script)
  /\ agents = AgentsOf(script)
  /\ pc = "idle"
  /\ user_input = <<>>
  /\ router_last = <<>>
  /\ routing_path = <<>>
  /\ chat = NoChats
  /\ chat_history = <<>>
  /\ chat_result = <<>>
  /\ result = NoResult
  /\ console = <<>>
  /\ cleared = 0
  /\ dispatched = <<>>
  /\ tool_calls = 0
  /\ tool_ret_pc = ""
  /\ tool_name = ""
  /\ tool_arg = <<>>
  /\ tool_result = ""
  /\ nested_last = <<>>
  /\ toolLog = <<>>
  /\ request = <<>>
  /\ request_info = <<>>
  /\ ccr_locals = <<>>
  /\ ccr_ret_pc = ""
  /\ report_history = <<>>
  /\ history_before = <<>>
  /\ user_preferences = <<>>
  /\ dependency_cache = <<>>
  /\ root_cause = <<>>

\* The record of a direct call of a tool function: what it was given, what it
\* returned, the chats it started and the lines it printed
LogEntry(ret, printed) ==
  [ fn |-> tool_name, arg |-> tool_arg, ret |-> ret,
    chats |-> {c \in ChatIds : chat[c] # "none"}, printed |-> printed ]

Logged(ret, printed) ==
  IF tool_ret_pc = "idle" THEN Append(toolLog, LogEntry(ret, printed)) ELSE toolLog

----------------------------------------------------------------------------
(* ticket_deflection.py: AgentSystem.route_and_resolve *)

\* is_termination_msg of the user proxy
is_termination_msg(content) == Contains(kw_complete, lower(content))

\* initiate_chat is a synchronous call: the caller waits in it
after_initiate_async(waiting, continuing) == continuing

after_initiate(waiting, continuing) == waiting

\* routing_path = last_message()["content"].strip().upper()
routing_path_of(content) == upper(strip(content))

\* The chain of keyword tests, one test per position
route_step_vpn_first(at, path) ==
  CASE at = "rr_check_human" ->
         IF Contains(kw_vpn, lower(path)) THEN "rr_vpn_initiate" ELSE "rr_check_vpn"
    [] at = "rr_check_vpn" ->
         IF Contains(kw_human, lower(path)) THEN "rr_escalate" ELSE "rr_check_change"
    [] at = "rr_check_change" ->
         IF Contains(kw_change, lower(path)) THEN "rr_cm_initiate" ELSE "rr_unmatched"

route_step_default_human(at, path) ==
  CASE at = "rr_check_human" ->
         IF Contains(kw_human, lower(path)) THEN "rr_escalate" ELSE "rr_check_vpn"
    [] at = "rr_check_vpn" ->
         IF Contains(kw_vpn, lower(path)) THEN "rr_vpn_initiate" ELSE "rr_check_change"
    [] at = "rr_check_change" ->
         IF Contains(kw_change, lower(path)) THEN "rr_cm_initiate" ELSE "rr_escalate"

route_step(at, path) ==
  CASE at = "rr_check_human" ->
         IF Contains(kw_human, lower(path)) THEN "rr_escalate" ELSE "rr_check_vpn"
    [] at = "rr_check_vpn" ->
         IF Contains(kw_vpn, lower(path)) THEN "rr_vpn_initiate" ELSE "rr_check_change"
    [] at = "rr_check_change" ->
         IF Contains(kw_change, lower(path)) THEN "rr_cm_initiate" ELSE "rr_unmatched"

\* `return self.escalate_to_human_agent(user_input)`: control leaves the function
after_escalate_fallthrough == "rr_check_vpn"

after_escalate == "done"

\* chat_result.chat_history[-1]['content']
first_content(history) == history[1]

last_content(history) == history[Len(history)]

route_and_resolve(u) ==
  /\ script = "ticket"
  /\ pc = "idle"
  /\ pc' = "rr_initiate"
  /\ user_input' = u
  /\ router_last' = <<>>
  /\ routing_path' = <<>>
  /\ chat' = NoChats
  /\ chat_history' = <<>>
  /\ chat_result' = <<>>
  /\ result' = NoResult
  /\ cleared' = 0
  /\ tool_calls' = 0
  /\ console' = <<>>
  /\ tool_ret_pc' = ""
  /\ tool_result' = ""
  /\ nested_last' = <<>>
  /\ UNCHANGED <<script, config, agents, dispatched, tool_name, tool_arg, toolLog,
                 request, reportVars, analyzerVars>>

router_initiate_chat ==
  /\ pc = "rr_initiate"
  /\ chat' = [chat EXCEPT !["router"] = "active"]
  /\ pc' = after_initiate("rr_router_chat", "rr_read")
  /\ UNCHANGED <<script, config, agents, dispatched, result, console, routeVars, toolVars,
                 request, reportVars, analyzerVars>>

router_chat_complete(r) ==
  /\ chat["router"] = "active"
  /\ pc \in {"rr_router_chat"}
  /\ chat' = [chat EXCEPT !["router"] = "done"]
  /\ router_last' = r
  /\ pc' = "rr_read"
  /\ UNCHANGED <<script, config, agents, dispatched, result, console, user_input,
                 routing_path, chat_history, chat_result, cleared, toolVars,
                 request, reportVars, analyzerVars>>

read_routing_path_from_input ==
  /\ pc = "rr_read"
  /\ routing_path' = routing_path_of(user_input)
  /\ pc' = "rr_clear"
  /\ UNCHANGED <<script, config, agents, dispatched, chat, result, console, user_input,
                 router_last, chat_history, chat_result, cleared, toolVars,
                 request, reportVars, analyzerVars>>

read_routing_path ==
  /\ pc = "rr_read"
  /\ routing_path' = routing_path_of(router_last)
  /\ pc' = "rr_clear"
  /\ UNCHANGED <<script, config, agents, dispatched, chat, result, console, user_input,
                 router_last, chat_history, chat_result, cleared, toolVars,
                 request, reportVars, analyzerVars>>

clear_history_not_called ==
  /\ pc = "rr_clear"
  /\ pc' = "rr_check_human"
  /\ UNCHANGED <<script, config, agents, dispatched, chat, result, console, routeVars, toolVars,
                 request, reportVars, analyzerVars>>

clear_history ==
  /\ pc = "rr_clear"
  /\ cleared' = cleared + 1
  /\ pc' = "rr_check_human"
  /\ UNCHANGED <<script, config, agents, dispatched, chat, result, console, user_input,
                 router_last, routing_path, chat_history, chat_result, toolVars,
                 request, reportVars, analyzerVars>>

route_test ==
  /\ pc \in {"rr_check_human", "rr_check_vpn", "rr_check_change"}
  /\ pc' = route_step(pc, routing_path)
  /\ UNCHANGED <<script, config, agents, dispatched, chat, result, console, routeVars, toolVars,
                 request, reportVars, analyzerVars>>

escalate_to_human_agent ==
  /\ \/ pc = "rr_escalate"
     \/ pc = "tool_run" /\ tool_name = "escalate_to_human_agent"
  /\ console' = Append(console, RaisedTicketLine)
  /\ IF pc = "rr_escalate"
     THEN /\ result' = Returned(TICKET_101)
          /\ pc' = after_escalate
          /\ UNCHANGED <<tool_result, toolLog>>
     ELSE /\ tool_result' = TICKET_101
          /\ toolLog' = Logged(TICKET_101, Append(console, RaisedTicketLine))
          /\ pc' = tool_ret_pc
          /\ UNCHANGED <<result>>
  /\ tool_name' = ""
  /\ tool_arg' = <<>>
  /\ UNCHANGED <<script, config, agents, dispatched, chat, routeVars, tool_calls, tool_ret_pc, nested_last,
                 request, reportVars, analyzerVars>>

SpecialistOf_vpn(at) == "vpn"

SpecialistOf(at) ==
  CASE at \in {"rr_vpn_initiate", "rr_vpn_chat", "rr_vpn_return"} -> "vpn"
    [] at \in {"rr_cm_initiate", "rr_cm_chat", "rr_cm_return"} -> "change_management"

ChatPc(agent) == IF agent = "vpn" THEN "rr_vpn_chat" ELSE "rr_cm_chat"
ReturnPc(agent) == IF agent = "vpn" THEN "rr_vpn_return" ELSE "rr_cm_return"

specialist_initiate_chat ==
  /\ pc \in {"rr_vpn_initiate", "rr_cm_initiate"}
  /\ chat' = [chat EXCEPT ![SpecialistOf(pc)] = "active"]
  /\ chat_history' = <<user_input>>
  /\ tool_calls' = 0
  /\ pc' = after_initiate(ChatPc(SpecialistOf(pc)), ReturnPc(SpecialistOf(pc)))
  /\ UNCHANGED <<script, config, agents, dispatched, result, console, user_input, router_last, routing_path, chat_result,
                 cleared, tool_ret_pc, tool_name, tool_arg, tool_result, nested_last, toolLog,
                 request, reportVars, analyzerVars>>

specialist_reply(m) ==
  /\ pc \in {"rr_vpn_chat", "rr_cm_chat"}
  /\ Len(chat_history) < MaxChatLen
  /\ ~ (Len(chat_history) > 1 /\ is_termination_msg(last_content(chat_history)))
  /\ chat_history' = Append(chat_history, m)
  /\ UNCHANGED <<script, config, agents, dispatched, pc, chat, result, console,
                 user_input, router_last, routing_path, chat_result, cleared, toolVars,
                 request, reportVars, analyzerVars>>

specialist_chat_complete ==
  /\ pc \in {"rr_vpn_chat", "rr_cm_chat"}
  /\ Len(chat_history) > 1
  /\ is_termination_msg(last_content(chat_history)) \/ Len(chat_history) >= MaxChatLen
  /\ chat' = [chat EXCEPT ![SpecialistOf(pc)] = "done"]
  /\ chat_result' = chat_history
  /\ pc' = ReturnPc(SpecialistOf(pc))
  /\ UNCHANGED <<script, config, agents, dispatched, result, console, user_input,
                 router_last, routing_path, chat_history, cleared, toolVars,
                 request, reportVars, analyzerVars>>

return_chat_result ==
  /\ pc \in {"rr_vpn_return", "rr_cm_return"}
  /\ result' = Returned(last_content(chat_result))
  /\ pc' = "done"
  /\ UNCHANGED <<script, config, agents, dispatched, chat, console, routeVars, toolVars,
                 request, reportVars, analyzerVars>>

return_unmatched ==
  /\ pc = "rr_unmatched"
  /\ result' = Returned(UnableToDetermine)
  /\ pc' = "done"
  /\ UNCHANGED <<script, config, agents, dispatched, chat, console, routeVars, toolVars,
                 request, reportVars, analyzerVars>>

\* The call is over, by a return or by an exception the caller handles: its
\* frame is gone and what is left is the object
return_to_caller ==
  /\ pc = "done"
  /\ pc' = "idle"
  /\ user_input' = <<>>
  /\ router_last' = <<>>
  /\ routing_path' = <<>>
  /\ chat_history' = <<>>
  /\ chat_result' = <<>>
  /\ cleared' = 0
  /\ chat' = NoChats
  /\ console' = <<>>
  /\ result' = NoResult
  /\ tool_calls' = 0
  /\ tool_ret_pc' = ""
  /\ tool_result' = ""
  /\ nested_last' = <<>>
  /\ request' = <<>>
  /\ request_info' = <<>>
  /\ ccr_locals' = <<>>
  /\ ccr_ret_pc' = ""
  /\ root_cause' = <<>>
  /\ history_before' = report_history
  /\ UNCHANGED <<script, config, agents, dispatched, tool_name, tool_arg, toolLog, report_history,
                 user_preferences, dependency_cache>>

----------------------------------------------------------------------------
(* ticket_deflection.py: the tool functions of AgentSystem *)

kw_approved == <<"a","p","p","r","o","v","e","d">>

RegisteredTools_approvals_swapped(agent) ==
  CASE agent = "vpn" ->
         {"check_and_fetch_employee_status", "send_approval_request_for_change",
          "update_vpn_table"}
    [] agent = "change_management" ->
         {"get_missing_data", "create_jira_ticket", "is_deployment_restricted",
          "send_approval_request"}
    [] OTHER -> {}

\* function_registrations: the tools each agent is given
RegisteredTools(agent) ==
  CASE agent = "vpn" ->
         {"check_and_fetch_employee_status", "send_approval_request", "update_vpn_table"}
    [] agent = "change_management" ->
         {"get_missing_data", "create_jira_ticket", "is_deployment_restricted",
          "send_approval_request_for_change"}
    [] OTHER -> {}

TicketTools ==
  RegisteredTools("vpn") \cup RegisteredTools("change_management")
    \cup {"escalate_to_human_agent"}

\* The agent a tool function opens a chat with, "none" when it opens none
nested_agent_jira(fn) ==
  CASE fn \in {"send_approval_request", "send_approval_request_for_change",
               "create_jira_ticket"} -> "approval"
    [] fn = "get_missing_data" -> "form_filler"
    [] OTHER -> "none"

nested_agent(fn) ==
  CASE fn \in {"send_approval_request", "send_approval_request_for_change"} -> "approval"
    [] fn = "get_missing_data" -> "form_filler"
    [] OTHER -> "none"

check_and_fetch_employee_status(employee_id) ==
  [employee_id |-> employee_id, user_name |-> "John Doe", department |-> "Sales"]

update_vpn_table(employee_id, name, department) == TRUE

is_deployment_restricted(scheduled_change_time) == FALSE

create_jira_ticket_by_team(request_text, team) == team

create_jira_ticket(request_text, team) == "CM_101"

process_approval_request_case_sensitive(last_message) ==
  IF Contains(kw_approved, last_message) THEN "Approved" ELSE "Rejected"

\* "Approved" if "approved" in agent.last_message()["content"].lower() else "Rejected"
process_approval_request(last_message) ==
  IF Contains(kw_approved, lower(last_message)) THEN "Approved" ELSE "Rejected"

\* What the human behind the approval agent / the form filler may type
HumanAnswers == { <<"A","p","p","r","o","v","e","d">>,
                  <<"r","e","j","e","c","t","e","d">>,
                  <<"n","o","t"," ","a","p","p","r","o","v","e","d">> }

TicketToolArgs(fn) ==
  CASE fn \in {"check_and_fetch_employee_status", "send_approval_request"} ->
         { <<"123456">>, <<"E2">> }
    [] fn = "update_vpn_table" ->
         { <<"123456", "John Doe", "Sales">>, <<"E2", "Ann", "HR">> }
    [] fn = "is_deployment_restricted" ->
         { <<"2024-11-05 22:00:00">>, <<"2024-12-25 00:00:00">> }
    [] fn = "create_jira_ticket" ->
         { <<"upgrade PostgreSQL", "Infrastructure">>, <<"rotate keys", "Cloud Security">> }
    [] fn \in {"send_approval_request_for_change", "get_missing_data"} ->
         { <<"Title">>, <<"Rollback Plan">> }
    [] fn = "escalate_to_human_agent" ->
         { <<"I need access to HR portal">>, <<"help">> }

ticket_tool_return(fn, arg) ==
  CASE fn = "check_and_fetch_employee_status" -> check_and_fetch_employee_status(arg[1])
    [] fn = "update_vpn_table" -> update_vpn_table(arg[1], arg[2], arg[3])
    [] fn = "is_deployment_restricted" -> is_deployment_restricted(arg[1])
    [] fn = "create_jira_ticket" -> create_jira_ticket(arg[1], arg[2])

----------------------------------------------------------------------------
(* examples/adaptive_dashboards.py: the mock data functions of                 *)
(* DynamicContextualReportingSystem.  A dict is a function on its keys, a list *)
(* a tuple, a float its decimal numeral.                                       *)

\* dict.get(key, default)
dict_get(d, key, default) == IF key \in DOMAIN d THEN d[key] ELSE default

None == [is_none |-> TRUE, value |-> <<>>]
Some(v) == [is_none |-> FALSE, value |-> v]
\* truth value of an optional list: None and [] are false
Truthy(opt) == ~ opt.is_none /\ opt.value # <<>>

fetch_metrics_data(metric_types, timeframe) ==
  [ cpu_utilization |-> [ service_a |-> <<45, 48, 52, 49, 51>>,
                          service_b |-> <<62, 65, 70, 72, 68>> ],
    request_latency |-> [ api_gateway |-> <<120, 125, 118, 130, 122>>,
                          payment_service |-> <<85, 82, 180, 175, 90>> ],
    error_rate |-> [ login_service |-> <<"0.02", "0.01", "0.01", "0.03", "0.01">>,
                     checkout_service |-> <<"0.01", "0.01", "0.04", "0.05", "0.02">> ],
    business_metrics |-> [ conversion_rate |-> <<"3.2", "3.1", "2.8", "2.9", "3.4">>,
                           cart_abandonment |-> <<24, 25, 28, 27, 23>> ] ]

analyze_metric_trends(metrics_data) ==
  [ significant_changes |->
      << [ metric |-> "payment_service.request_latency", change |-> "+110%%",
           timeframe |-> "2 days ago", current_value |-> 90,
           previous_value |-> 85, peak_value |-> 180 ],
         [ metric |-> "checkout_service.error_rate", change |-> "+400%%",
           timeframe |-> "3 days ago", current_value |-> "0.02",
           previous_value |-> "0.01", peak_value |-> "0.05" ] >>,
    stable_metrics |-> <<"cpu_utilization", "login_service.error_rate">> ]

identify_correlated_metrics(metrics_data) ==
  << [ metrics |-> <<"payment_service.request_latency", "checkout_service.error_rate">>,
       correlation |-> "0.92", timeframe |-> "last 5 days", significance |-> "high" ],
     [ metrics |-> <<"payment_service.request_latency", "cart_abandonment">>,
       correlation |-> "0.85", timeframe |-> "last 5 days", significance |-> "high" ] >>

user_contexts ==
  [ dev_team |->
      [ role |-> "developer", technical_level |-> "high",
        focus_areas |-> <<"service_health", "error_rates", "deployment_impact">>,
        preferred_detail_level |-> "detailed",
        preferred_visualization |-> "metrics_graphs" ],
    ops_team |->
      [ role |-> "operations", technical_level |-> "high",
        focus_areas |-> <<"system_stability", "resource_utilization", "anomalies">>,
        preferred_detail_level |-> "detailed",
        preferred_visualization |-> "metrics_with_logs" ],
    business |->
      [ role |-> "product_management", technical_level |-> "medium",
        focus_areas |-> <<"user_impact", "business_metrics", "summary_health">>,
        preferred_detail_level |-> "summary",
        preferred_visualization |-> "business_impact_dashboard" ],
    executive |->
      [ role |-> "executive", technical_level |-> "low",
        focus_areas |-> <<"business_impact", "critical_issues", "trends">>,
        preferred_detail_level |-> "high_level",
        preferred_visualization |-> "status_summary" ] ]

get_user_context_executive(user_id) ==
  dict_get(user_contexts, user_id, user_contexts["executive"])

get_user_context(user_id) == dict_get(user_contexts, user_id, user_contexts["dev_team"])

generate_visualizations(data, visualization_type) ==
  IF visualization_type = "metrics_graphs" THEN
    << "Line chart showing payment_service latency spike correlating with checkout error rate increase",
       "Heat map of service dependencies highlighting the payment service connection strain" >>
  ELSE IF visualization_type = "business_impact_dashboard" THEN
    << "Conversion funnel showing 12% drop at payment step during incident period",
       "Revenue impact estimation chart: \\$15,000 lost during 2-hour incident window" >>
  ELSE IF visualization_type = "status_summary" THEN
    << "System health scorecard: 3 services degraded, 18 healthy",
       "Business impact summary: Medium severity on checkout flow, no impact on browsing" >>
  ELSE <<>>

retrieve_historical_context(metrics, timeframe) ==
  ( "payment_service.request_latency" :>
      [ baseline |-> 85, p95_normal |-> 110,
        previous_incidents |->
          << [ date |-> "2023-04-15", peak_value |-> 195, duration_hours |-> "1.5",
               root_cause |-> "Database connection pool exhaustion",
               resolution |-> "Increased connection pool size and implemented connection timeout" ] >> ] )
  @@
  ( "checkout_service.error_rate" :>
      [ baseline |-> "0.01", p95_normal |-> "0.03",
        previous_incidents |->
          << [ date |-> "2023-05-22", peak_value |-> "0.08", duration_hours |-> "2.2",
               root_cause |-> "Payment gateway timeout setting too low",
               resolution |-> "Increased timeout and added circuit breaker" ] >> ] )

fetch_topology_data ==
  [ services |->
      << [id |-> "web_ui", type |-> "frontend"],
         [id |-> "api_gateway", type |-> "gateway"],
         [id |-> "user_service", type |-> "microservice"],
         [id |-> "catalog_service", type |-> "microservice"],
         [id |-> "checkout_service", type |-> "microservice"],
         [id |-> "payment_service", type |-> "microservice"],
         [id |-> "inventory_service", type |-> "microservice"] >>,
    dependencies |->
      << [source |-> "web_ui", target |-> "api_gateway"],
         [source |-> "api_gateway", target |-> "user_service"],
         [source |-> "api_gateway", target |-> "catalog_service"],
         [source |-> "api_gateway", target |-> "checkout_service"],
         [source |-> "checkout_service", target |-> "payment_service"],
         [source |-> "checkout_service", target |-> "inventory_service"],
         [source |-> "payment_service", target |-> "user_service"] >>,
    recent_changes |->
      << [ service |-> "payment_service", type |-> "deployment", version |-> "2.3.5",
           timestamp |-> "2023-06-14T18:30:00Z" ] >> ]

sample_logs ==
  << [ timestamp |-> "2023-06-15T10:22:15Z", service |-> "payment_service", level |-> "ERROR",
       message |-> <<"C","o","n","n","e","c","t","i","o","n"," ","t","i","m","e","o","u","t"," ","t","o"," ","p","a","y","m","e","n","t"," ","g","a","t","e","w","a","y">> ],
     [ timestamp |-> "2023-06-15T10:22:18Z", service |-> "payment_service", level |-> "WARN",
       message |-> <<"R","e","t","r","y","i","n","g"," ","p","a","y","m","e","n","t"," ","g","a","t","e","w","a","y"," ","c","o","n","n","e","c","t","i","o","n"," ","(","a","t","t","e","m","p","t"," ","1",")">> ],
     [ timestamp |-> "2023-06-15T10:22:25Z", service |-> "payment_service", level |-> "WARN",
       message |-> <<"R","e","t","r","y","i","n","g"," ","p","a","y","m","e","n","t"," ","g","a","t","e","w","a","y"," ","c","o","n","n","e","c","t","i","o","n"," ","(","a","t","t","e","m","p","t"," ","2",")">> ],
     [ timestamp |-> "2023-06-15T10:22:35Z", service |-> "payment_service", level |-> "ERROR",
       message |-> <<"P","a","y","m","e","n","t"," ","g","a","t","e","w","a","y"," ","c","o","n","n","e","c","t","i","o","n"," ","f","a","i","l","e","d"," ","a","f","t","e","r"," ","r","e","t","r","i","e","s">> ],
     [ timestamp |-> "2023-06-15T10:22:36Z", service |-> "checkout_service", level |-> "ERROR",
       message |-> <<"P","a","y","m","e","n","t"," ","p","r","o","c","e","s","s","i","n","g"," ","f","a","i","l","e","d",":"," ","t","i","m","e","o","u","t">> ] >>

log_matches_every(log, terms) ==
  \A t \in 1..Len(terms) : Contains(lower(terms[t]), lower(log["message"]))

\* any(term.lower() in log["message"].lower() for term in filter_terms)
log_matches(log, terms) ==
  \E t \in 1..Len(terms) : Contains(lower(terms[t]), lower(log["message"]))

RECURSIVE filter_logs(_, _)
filter_logs(logs, terms) ==
  IF logs = <<>> THEN <<>>
  ELSE IF log_matches(Head(logs), terms)
       THEN <<Head(logs)>> \o filter_logs(Tail(logs), terms)
       ELSE filter_logs(Tail(logs), terms)

fetch_logs_data(services, timeframe, filter_terms) ==
  IF Truthy(filter_terms) THEN filter_logs(sample_logs, filter_terms.value)
  ELSE sample_logs

ReportTools ==
  {"fetch_metrics_data", "analyze_metric_trends", "identify_correlated_metrics",
   "get_user_context", "generate_visualizations", "retrieve_historical_context",
   "fetch_topology_data", "fetch_logs_data"}

FilterTerms == { <<"T","I","M","E","O","U","T">>, <<"r","e","t","r","y","i","n","g">>,
                 <<"d","i","s","k">> }

ReportToolArgs(fn) ==
  CASE fn = "fetch_metrics_data" ->
         { << <<"service_health">>, "last_24h" >>, << <<"business_metrics">>, "last_week" >> }
    [] fn \in {"analyze_metric_trends", "identify_correlated_metrics"} ->
         { << fetch_metrics_data(<<"service_health">>, "last_24h") >>, << <<>> >> }
    [] fn = "get_user_context" ->
         { <<"dev_team">>, <<"ops_team">>, <<"business">>, <<"executive">>, <<"guest">> }
    [] fn = "generate_visualizations" ->
         { << <<>>, "metrics_graphs" >>, << <<>>, "business_impact_dashboard" >>,
           << <<>>, "status_summary" >>, << <<>>, "metrics_with_logs" >> }
    [] fn = "retrieve_historical_context" ->
         { << <<"payment_service.request_latency">>, "last_3_months" >>,
           << <<"cpu_utilization">>, "last_week" >> }
    [] fn = "fetch_topology_data" -> { <<>> }
    [] fn = "fetch_logs_data" ->
         { << <<"payment_service">>, "last_24h", None >>,
           << <<"payment_service">>, "last_24h", Some(<<>>) >> }
           \cup { << <<"payment_service">>, "last_24h", Some(<<t>>) >> : t \in FilterTerms }
           \cup UNION { { << <<"checkout_service">>, "last_week", Some(<<t, u>>) >> :
                             u \in FilterTerms \ {t} } : t \in FilterTerms }

report_tool_return(fn, arg) ==
  CASE fn = "fetch_metrics_data" -> fetch_metrics_data(arg[1], arg[2])
    [] fn = "analyze_metric_trends" -> analyze_metric_trends(arg[1])
    [] fn = "identify_correlated_metrics" -> identify_correlated_metrics(arg[1])
    [] fn = "get_user_context" -> get_user_context(arg[1])
    [] fn = "generate_visualizations" -> generate_visualizations(arg[1], arg[2])
    [] fn = "retrieve_historical_context" -> retrieve_historical_context(arg[1], arg[2])
    [] fn = "fetch_topology_data" -> fetch_topology_data
    [] fn = "fetch_logs_data" -> fetch_logs_data(arg[1], arg[2], arg[3])

----------------------------------------------------------------------------
(* examples/dependency_analyzer.py: the mock data functions of                 *)
(* DynamicDependencyAnalyzer                                                   *)

analyzer_fetch_topology_data ==
  [ services |->
      << [id |-> "frontend", type |-> "web"],
         [id |-> "checkout", type |-> "api"],
         [id |-> "payment", type |-> "api"],
         [id |-> "inventory", type |-> "api"] >>,
    dependencies |->
      << [source |-> "frontend", target |-> "checkout", calls_per_minute |-> 250],
         [source |-> "checkout", target |-> "payment", calls_per_minute |-> 175],
         [source |-> "checkout", target |-> "inventory", calls_per_minute |-> 320] >> ]

\* `current` is fetched and not used: the changes are a literal
detect_topology_changes ==
  LET current == analyzer_fetch_topology_data IN
  [ new_services |-> <<>>,
    removed_services |-> <<>>,
    new_dependencies |->
      << [source |-> "payment", target |-> "inventory", calls_per_minute |-> 45] >>,
    changed_dependencies |->
      << [ source |-> "checkout", target |-> "inventory",
           previous_calls_per_minute |-> 200, current_calls_per_minute |-> 320,
           percent_change |-> 60 ] >> ]

analyzer_fetch_metrics_data(services) ==
  [ inventory |-> [ latency_p95 |-> 250, error_rate |-> "0.02", request_rate |-> 320,
                    cpu_usage |-> "0.75", memory_usage |-> "0.82",
                    db_connections |-> 95, db_connection_limit |-> 100 ],
    payment |-> [ latency_p95 |-> 120, error_rate |-> "0.005", request_rate |-> 175 ],
    checkout |-> [ latency_p95 |-> 450, error_rate |-> "0.01", request_rate |-> 250 ] ]

fetch_trace_data(service_id, limit) ==
  << [ trace_id |-> "abc123", start_time |-> "2023-06-15T14:22:10.324Z",
       spans |->
         << [service |-> "frontend", operation |-> "GET /checkout", duration_ms |-> 520],
            [service |-> "checkout", operation |-> "process_order", duration_ms |-> 480],
            [service |-> "inventory", operation |-> "verify_stock", duration_ms |-> 320,
             error |-> FALSE],
            [service |-> "payment", operation |-> "process_payment", duration_ms |-> 110,
             error |-> FALSE] >> ],
     [ trace_id |-> "def456", start_time |-> "2023-06-15T14:22:11.128Z",
       spans |->
         << [service |-> "frontend", operation |-> "GET /checkout", duration_ms |-> 610],
            [service |-> "checkout", operation |-> "process_order", duration_ms |-> 590],
            [service |-> "inventory", operation |-> "verify_stock", duration_ms |-> 480,
             error |-> FALSE],
            [service |-> "payment", operation |-> "process_payment", duration_ms |-> 120,
             error |-> FALSE] >> ] >>

analyze_dependency_health(service_id) ==
  IF service_id = "checkout" THEN
    [ service_id |-> "checkout",
      dependencies |->
        << [ service_id |-> "payment", health |-> "healthy",
             latency_trend |-> "stable", error_rate_trend |-> "stable" ],
           [ service_id |-> "inventory", health |-> "degraded",
             latency_trend |-> "increasing", error_rate_trend |-> "stable",
             anomalies |->
               << [ type |-> "resource_saturation",
                    description |-> "DB connection pool nearing capacity (95%)",
                    severity |-> "high" ] >> ] >> ]
  ELSE [ service_id |-> service_id, dependencies |-> <<>> ]

analyzer_fetch_logs_data(service_id, time_range_minutes) ==
  IF service_id = "inventory" THEN
    << [ timestamp |-> "2023-06-15T14:10:02Z", level |-> "WARN",
         message |-> "High database connection count (90/100)" ],
       [ timestamp |-> "2023-06-15T14:15:22Z", level |-> "ERROR",
         message |-> "Connection leak detected in validateInventory method" ],
       [ timestamp |-> "2023-06-15T14:18:45Z", level |-> "WARN",
         message |-> "High database connection count (93/100)" ],
       [ timestamp |-> "2023-06-15T14:20:12Z", level |-> "WARN",
         message |-> "High database connection count (95/100)" ] >>
  ELSE <<>>

analyze_root_cause(issue_info) ==
  [ source_service |-> "checkout",
    symptom |-> "Increased latency (P95: 450ms)",
    root_cause_service |-> "inventory",
    root_cause |-> "Database connection pool saturation in inventory service",
    evidence |->
      << "Inventory service showing 95/100 active DB connections",
         "Logs indicate connection leak in validateInventory method",
         "Latency increase correlates with deployment of inventory service v2.3.1 (2 hours ago)",
         "Traces show inventory.verify_stock operation taking 320-480ms (baseline: 150ms)" >>,
    recommendations |->
      << [ type |-> "immediate",
           action |-> "Increase DB connection pool size in inventory service from 100 to 150",
           expected_impact |-> "Alleviate immediate pressure and reduce latency" ],
         [ type |-> "fix",
           action |-> "Fix connection leak in validateInventory method",
           evidence |-> "Log entries showing connection leak warnings" ] >> ]

AnalyzerTools ==
  {"fetch_topology_data", "detect_topology_changes", "fetch_metrics_data",
   "fetch_trace_data", "analyze_dependency_health", "fetch_logs_data",
   "analyze_root_cause"}

AnalyzerToolArgs(fn) ==
  CASE fn \in {"fetch_topology_data", "detect_topology_changes"} -> { <<>> }
    [] fn = "fetch_metrics_data" -> { << <<"checkout">> >>, << <<"inventory", "payment">> >> }
    [] fn = "fetch_trace_data" -> { <<"checkout", 100>>, <<"inventory", 10>> }
    [] fn = "analyze_dependency_health" -> { <<"checkout">>, <<"inventory">> }
    [] fn = "fetch_logs_data" -> { <<"inventory", 15>>, <<"checkout", 15>>, <<"inventory", 60>> }
    [] fn = "analyze_root_cause" ->
         { << [service |-> "checkout", issue |-> "latency", severity |-> "medium"] >>,
           << [service |-> "payment", issue |-> "errors", severity |-> "high"] >> }

analyzer_tool_return(fn, arg) ==
  CASE fn = "fetch_topology_data" -> analyzer_fetch_topology_data
    [] fn = "detect_topology_changes" -> detect_topology_changes
    [] fn = "fetch_metrics_data" -> analyzer_fetch_metrics_data(arg[1])
    [] fn = "fetch_trace_data" -> fetch_trace_data(arg[1], arg[2])
    [] fn = "analyze_dependency_health" -> analyze_dependency_health(arg[1])
    [] fn = "fetch_logs_data" -> analyzer_fetch_logs_data(arg[1], arg[2])
    [] fn = "analyze_root_cause" -> analyze_root_cause(arg[1])

----------------------------------------------------------------------------
(* examples/adaptive_dashboards.py: process_report_request and                 *)
(* create_contextual_report                                                    *)

kw_executive == <<"e","x","e","c","u","t","i","v","e">>
kw_business == <<"b","u","s","i","n","e","s","s">>
kw_operations == <<"o","p","e","r","a","t","i","o","n","s">>
kw_ops == <<"o","p","s">>
kw_performance == <<"p","e","r","f","o","r","m","a","n","c","e">>
kw_errors == <<"e","r","r","o","r","s">>

ReportRequestTokens ==
  { <<"E","x","e","c","u","t","i","v","e">>, kw_business, kw_operations, <<"O","P","S">>,
    kw_performance \o <<" ">> \o kw_errors, <<"d","e","v">> }

ReportRequests == TokenTexts(ReportRequestTokens, MaxRequestTokens)

role_of_request_ops_first(req) ==
  IF Contains(kw_operations, lower(req)) \/ Contains(kw_ops, lower(req))
  THEN "ops_team"
  ELSE IF Contains(kw_executive, lower(req)) \/ Contains(kw_business, lower(req))
       THEN "executive"
       ELSE "dev_team"

\* request_info as process_report_request builds it from the keywords
role_of_request(req) ==
  IF Contains(kw_executive, lower(req)) \/ Contains(kw_business, lower(req))
  THEN "executive"
  ELSE IF Contains(kw_operations, lower(req)) \/ Contains(kw_ops, lower(req))
       THEN "ops_team"
       ELSE "dev_team"

focus_of_role(role) ==
  CASE role = "executive" -> <<"business_metrics", "critical_issues">>
    [] role = "ops_team" -> <<"system_stability", "anomalies">>
    [] role = "dev_team" -> <<"service_health", "deployment_impact">>

focus_of_request(req) ==
  focus_of_role(role_of_request(req))
    \o (IF Contains(kw_performance, lower(req)) THEN <<"performance">> ELSE <<>>)
    \o (IF Contains(kw_errors, lower(req)) THEN <<"error_rates">> ELSE <<>>)
    \o (IF Contains(kw_business, lower(req)) THEN <<"business_metrics">> ELSE <<>>)

request_info_of(req) ==
  [ report_type |-> "status", timeframe |-> "last_24h",
    user_role |-> role_of_request(req), focus_areas |-> focus_of_request(req) ]

\* The dicts create_contextual_report is called with directly
RequestInfos ==
  { <<>>,
    [user_role |-> "executive"],
    [user_role |-> "executive", report_type |-> "status", timeframe |-> "last_week",
     focus_areas |-> <<"dependencies">>],
    [user_role |-> "ops_team", focus_areas |-> <<"anomalies">>],
    [user_role |-> "guest"] }

ExecutiveNarrative == "## Executive System Status Report ..."

\* `in` on a list
InList(x, list) == \E i \in 1..Len(list) : list[i] = x

\* k.split(".") of a metric name
split_dot(k) ==
  CASE k = "payment_service.request_latency" -> <<"payment_service", "request_latency">>
    [] k = "checkout_service.error_rate" -> <<"checkout_service", "error_rate">>

\* [item["metric"] for item in trends.get("significant_changes", [])]
key_metrics_of(trends) ==
  LET changes == dict_get(trends, "significant_changes", <<>>)
  IN  [i \in 1..Len(changes) |-> changes[i]["metric"]]

current_values_of(key_metrics, metrics_data) ==
  [ k \in {key_metrics[i] : i \in 1..Len(key_metrics)} |->
      dict_get(dict_get(metrics_data, split_dot(k)[1], <<>>), split_dot(k)[2], "N/A") ]

\* The narrative is assigned in the `if user_role == "executive"` branch only
narrative_of(user_role) ==
  IF user_role = "executive" THEN [bound |-> TRUE, text |-> ExecutiveNarrative]
  ELSE [bound |-> FALSE]

\* sep.join(list), as the list of its parts
RECURSIVE join(_, _)
join(sep, list) ==
  IF Len(list) <= 1 THEN list
  ELSE <<Head(list), sep>> \o join(sep, Tail(list))

formatted_report_of(report) ==
  [ title |-> report["title"],
    generated_for |-> report["generated_for"],
    narrative |-> report["narrative"],
    visualizations |->
      IF report["visualizations"] # <<>>
      THEN <<"- ", "\n">> \o join("- ", report["visualizations"])
      ELSE <<"No visualizations generated">>,
    footer |-> "Report complete." ]

process_report_request(req) ==
  /\ script = "report"
  /\ pc = "idle"
  /\ Len(report_history) < MaxReports
  /\ pc' = "pr_initiate"
  /\ request' = req
  /\ request_info' = <<>>
  /\ ccr_locals' = <<>>
  /\ ccr_ret_pc' = ""
  /\ chat' = NoChats
  /\ console' = <<>>
  /\ result' = NoResult
  /\ history_before' = report_history
  /\ UNCHANGED <<script, config, agents, dispatched, routeVars, toolVars, report_history, user_preferences,
                 analyzerVars>>

\* user_proxy.initiate_chat(orchestrator, message=request), in both examples
orchestrator_initiate_chat ==
  /\ pc \in {"pr_initiate", "pa_initiate"}
  /\ chat' = [chat EXCEPT !["orchestrator"] = "active"]
  /\ pc' = IF pc = "pr_initiate" THEN after_initiate("pr_orch_chat", "pr_parse")
           ELSE after_initiate("pa_orch_chat", "pa_check")
  /\ UNCHANGED <<script, config, agents, dispatched, result, console, routeVars, toolVars, request, reportVars,
                 analyzerVars>>

orchestrator_chat_complete ==
  /\ pc \in {"pr_orch_chat", "pa_orch_chat"}
  /\ chat' = [chat EXCEPT !["orchestrator"] = "done"]
  /\ pc' = IF pc = "pr_orch_chat" THEN "pr_parse" ELSE "pa_check"
  /\ UNCHANGED <<script, config, agents, dispatched, result, console, routeVars, toolVars, request, reportVars,
                 analyzerVars>>

parse_report_request ==
  /\ pc = "pr_parse"
  /\ request_info' = request_info_of(request)
  /\ ccr_ret_pc' = "pr_format"
  /\ pc' = "ccr_extract"
  /\ UNCHANGED <<script, config, agents, dispatched, chat, result, console, routeVars, toolVars, request,
                 ccr_locals, report_history, history_before, user_preferences, analyzerVars>>

\* A call made directly on the object
create_contextual_report(info) ==
  /\ script = "report"
  /\ pc = "idle"
  /\ Len(report_history) < MaxReports
  /\ request' = <<>>
  /\ request_info' = info
  /\ ccr_locals' = <<>>
  /\ ccr_ret_pc' = "done"
  /\ pc' = "ccr_extract"
  /\ chat' = NoChats
  /\ console' = <<>>
  /\ result' = NoResult
  /\ history_before' = report_history
  /\ UNCHANGED <<script, config, agents, dispatched, routeVars, toolVars, report_history, user_preferences,
                 analyzerVars>>

ccr_extract ==
  /\ pc = "ccr_extract"
  /\ ccr_locals' =
       [ user_role |-> dict_get(request_info, "user_role", "dev_team"),
         report_type |-> dict_get(request_info, "report_type", "status"),
         timeframe |-> dict_get(request_info, "timeframe", "last_24h"),
         focus_areas |-> dict_get(request_info, "focus_areas", <<"service_health">>) ]
  /\ pc' = "ccr_collect"
  /\ UNCHANGED <<script, config, agents, dispatched, chat, result, console, routeVars, toolVars, request,
                 request_info, ccr_ret_pc, report_history, history_before, user_preferences,
                 analyzerVars>>

ccr_collect ==
  /\ pc = "ccr_collect"
  /\ LET user_context == get_user_context(ccr_locals["user_role"])
         metrics_data == fetch_metrics_data(ccr_locals["focus_areas"], ccr_locals["timeframe"])
         trends == analyze_metric_trends(metrics_data)
         correlations == identify_correlated_metrics(metrics_data)
         key_metrics == key_metrics_of(trends)
         historical_context ==
           IF key_metrics # <<>>
           THEN retrieve_historical_context(key_metrics, "last_3_months") ELSE <<>>
         topology ==
           IF InList("dependencies", ccr_locals["focus_areas"])
           THEN fetch_topology_data ELSE <<>>
         visualizations ==
           generate_visualizations(
             [metrics |-> metrics_data, trends |-> trends, correlations |-> correlations],
             dict_get(user_context, "preferred_visualization", "metrics_graphs"))
     IN ccr_locals' = ccr_locals @@
          [ key_metrics |-> key_metrics,
            current_values |->
              IF key_metrics # <<>> THEN current_values_of(key_metrics, metrics_data)
              ELSE <<>>,
            visualizations |-> visualizations ]
  /\ pc' = "ccr_narrative"
  /\ UNCHANGED <<script, config, agents, dispatched, chat, result, console, routeVars, toolVars, request,
                 request_info, ccr_ret_pc, report_history, history_before, user_preferences,
                 analyzerVars>>

ccr_narrative ==
  /\ pc = "ccr_narrative"
  /\ ccr_locals' = ccr_locals @@ [narrative |-> narrative_of(ccr_locals["user_role"])]
  /\ pc' = "ccr_construct"
  /\ UNCHANGED <<script, config, agents, dispatched, chat, result, console, routeVars, toolVars, request,
                 request_info, ccr_ret_pc, report_history, history_before, user_preferences,
                 analyzerVars>>

\* report = {...}: reading the unbound local `narrative` raises UnboundLocalError,
\* which neither function catches
ccr_construct_after_append ==
  /\ pc = "ccr_construct"
  /\ report_history' =
       Append(report_history,
              [ report_id |-> Len(report_history) + 1,
                user_role |-> ccr_locals["user_role"],
                request_info |-> request_info ])
  /\ IF ccr_locals["narrative"].bound
     THEN /\ ccr_locals' = ccr_locals @@
               [ report |->
                   [ title |-> "System Status Report - %Y-%m-%d",
                     generated_for |-> ccr_locals["user_role"],
                     narrative |-> ccr_locals["narrative"].text,
                     visualizations |-> ccr_locals["visualizations"],
                     key_metrics |->
                       [ highlighted |-> ccr_locals["key_metrics"],
                         current_values |-> ccr_locals["current_values"] ] ] ]
          /\ pc' = "ccr_return"
          /\ UNCHANGED result
     ELSE /\ result' = [status |-> "raised", value |-> "UnboundLocalError"]
          /\ pc' = "done"
          /\ UNCHANGED ccr_locals
  /\ UNCHANGED <<script, config, agents, dispatched, chat, console, routeVars, toolVars, request,
                 request_info, ccr_ret_pc, history_before, user_preferences, analyzerVars>>

ccr_construct ==
  /\ pc = "ccr_construct"
  /\ IF ccr_locals["narrative"].bound
     THEN /\ ccr_locals' = ccr_locals @@
               [ report |->
                   [ title |-> "System Status Report - %Y-%m-%d",
                     generated_for |-> ccr_locals["user_role"],
                     narrative |-> ccr_locals["narrative"].text,
                     visualizations |-> ccr_locals["visualizations"],
                     key_metrics |->
                       [ highlighted |-> ccr_locals["key_metrics"],
                         current_values |-> ccr_locals["current_values"] ] ] ]
          /\ pc' = "ccr_append"
          /\ UNCHANGED result
     ELSE /\ result' = [status |-> "raised", value |-> "UnboundLocalError"]
          /\ pc' = "done"
          /\ UNCHANGED ccr_locals
  /\ UNCHANGED <<script, config, agents, dispatched, chat, console, routeVars, toolVars, request, request_info,
                 ccr_ret_pc, report_history, history_before, user_preferences, analyzerVars>>

ccr_append_recording_preferences ==
  /\ pc = "ccr_append"
  /\ report_history' =
       Append(report_history,
              [ report_id |-> Len(report_history) + 1,
                user_role |-> ccr_locals["user_role"],
                request_info |-> request_info ])
  /\ user_preferences' =
       (ccr_locals["user_role"] :> ccr_locals["report_type"]) @@ user_preferences
  /\ pc' = "ccr_return"
  /\ UNCHANGED <<script, config, agents, dispatched, chat, result, console, routeVars, toolVars,
                 request, request_info, ccr_locals, ccr_ret_pc, history_before, analyzerVars>>

ccr_append_zero_based ==
  /\ pc = "ccr_append"
  /\ report_history' =
       Append(report_history,
              [ report_id |-> Len(report_history),
                user_role |-> ccr_locals["user_role"],
                request_info |-> request_info ])
  /\ pc' = "ccr_return"
  /\ UNCHANGED <<script, config, agents, dispatched, chat, result, console, routeVars, toolVars,
                 request, request_info, ccr_locals, ccr_ret_pc, history_before, user_preferences,
                 analyzerVars>>

ccr_append ==
  /\ pc = "ccr_append"
  /\ report_history' =
       Append(report_history,
              [ report_id |-> Len(report_history) + 1,
                user_role |-> ccr_locals["user_role"],
                request_info |-> request_info ])
  /\ pc' = "ccr_return"
  /\ UNCHANGED <<script, config, agents, dispatched, chat, result, console, routeVars, toolVars, request,
                 request_info, ccr_locals, ccr_ret_pc, history_before, user_preferences,
                 analyzerVars>>

ccr_return ==
  /\ pc = "ccr_return"
  /\ IF ccr_ret_pc = "done"
     THEN result' = Returned(ccr_locals["report"])
     ELSE UNCHANGED result
  /\ pc' = ccr_ret_pc
  /\ UNCHANGED <<script, config, agents, dispatched, chat, console, routeVars, toolVars, request, reportVars,
                 analyzerVars>>

format_report ==
  /\ pc = "pr_format"
  /\ result' = Returned(formatted_report_of(ccr_locals["report"]))
  /\ pc' = "done"
  /\ UNCHANGED <<script, config, agents, dispatched, chat, console, routeVars, toolVars, request, reportVars,
                 analyzerVars>>

----------------------------------------------------------------------------
(* examples/dependency_analyzer.py: process_analysis_request *)

kw_checkout == <<"c","h","e","c","k","o","u","t">>
kw_latency == <<"l","a","t","e","n","c","y">>

AnalysisRequestTokens ==
  { <<"C","h","e","c","k","o","u","t"," ">>, kw_checkout, <<"L","a","t","e","n","c","y">>,
    <<"l","a","t","e">>, <<"n","c","y">>, <<"p","a","y","m","e","n","t">> }

AnalysisRequests == TokenTexts(AnalysisRequestTokens, MaxRequestTokens)

AnalysisResponse == "Analysis Complete: ... Analysis complete."
CouldNotDetermine == "Could not determine the appropriate analysis path for this request."

analysis_path_either(req) ==
  IF Contains(kw_checkout, lower(req)) \/ Contains(kw_latency, lower(req))
  THEN "pa_root_cause" ELSE "pa_unmatched"

analysis_path(req) ==
  IF Contains(kw_checkout, lower(req)) /\ Contains(kw_latency, lower(req))
  THEN "pa_root_cause" ELSE "pa_unmatched"

process_analysis_request(req) ==
  /\ script = "analyzer"
  /\ pc = "idle"
  /\ pc' = "pa_initiate"
  /\ request' = req
  /\ root_cause' = <<>>
  /\ chat' = NoChats
  /\ console' = <<>>
  /\ result' = NoResult
  /\ UNCHANGED <<script, config, agents, dispatched, routeVars, toolVars, reportVars, dependency_cache>>

analysis_test ==
  /\ pc = "pa_check"
  /\ pc' = analysis_path(request)
  /\ UNCHANGED <<script, config, agents, dispatched, chat, result, console, routeVars, toolVars, request,
                 reportVars, analyzerVars>>

analysis_root_cause ==
  /\ pc = "pa_root_cause"
  /\ root_cause' =
       analyze_root_cause([service |-> "checkout", issue |-> "latency", severity |-> "medium"])
  /\ pc' = "pa_return"
  /\ UNCHANGED <<script, config, agents, dispatched, chat, result, console, routeVars, toolVars, request,
                 reportVars, dependency_cache>>

analysis_return ==
  /\ pc \in {"pa_return", "pa_unmatched"}
  /\ result' = Returned(IF pc = "pa_return" THEN AnalysisResponse ELSE CouldNotDetermine)
  /\ pc' = "done"
  /\ UNCHANGED <<script, config, agents, dispatched, chat, console, routeVars, toolVars, request, reportVars,
                 analyzerVars>>

----------------------------------------------------------------------------
(* Executing a tool function: called directly on the object, or by the user   *)
(* proxy on behalf of the agent it is registered with                         *)

ToolsOf(scr) ==
  CASE scr = "ticket" -> TicketTools
    [] scr = "report" -> ReportTools
    [] scr = "analyzer" -> AnalyzerTools

ToolArgs(scr, fn) ==
  CASE scr = "ticket" -> TicketToolArgs(fn)
    [] scr = "report" -> ReportToolArgs(fn)
    [] scr = "analyzer" -> AnalyzerToolArgs(fn)

tool_return(scr, fn, arg) ==
  CASE scr = "ticket" -> ticket_tool_return(fn, arg)
    [] scr = "report" -> report_tool_return(fn, arg)
    [] scr = "analyzer" -> analyzer_tool_return(fn, arg)

\* A call made directly on the object
call_tool(fn, arg) ==
  /\ pc = "idle"
  /\ Len(toolLog) < MaxToolLog
  /\ pc' = "tool_run"
  /\ tool_ret_pc' = "idle"
  /\ tool_name' = fn
  /\ tool_arg' = arg
  /\ chat' = NoChats
  /\ console' = <<>>
  /\ result' = NoResult
  /\ tool_result' = ""
  /\ nested_last' = <<>>
  /\ UNCHANGED <<script, config, agents, dispatched, routeVars, tool_calls, toolLog,
                 request, reportVars, analyzerVars>>

\* A call the user proxy executes inside the chat with a specialist agent
execute_function(fn, arg) ==
  /\ pc \in {"rr_vpn_chat", "rr_cm_chat"}
  /\ fn \in RegisteredTools(SpecialistOf(pc))
  /\ tool_calls < MaxToolCalls
  /\ tool_calls' = tool_calls + 1
  /\ pc' = "tool_run"
  /\ tool_ret_pc' = pc
  /\ tool_name' = fn
  /\ tool_arg' = arg
  /\ tool_result' = ""
  /\ nested_last' = <<>>
  /\ UNCHANGED <<script, config, agents, dispatched, chat, result, console, routeVars, toolLog,
                 request, reportVars, analyzerVars>>

\* A function that computes its value and returns
tool_returns ==
  /\ pc = "tool_run"
  /\ nested_agent(tool_name) = "none"
  /\ tool_name # "escalate_to_human_agent"
  /\ tool_result' = tool_return(script, tool_name, tool_arg)
  /\ toolLog' = Logged(tool_return(script, tool_name, tool_arg), console)
  /\ pc' = tool_ret_pc
  /\ tool_name' = ""
  /\ tool_arg' = <<>>
  /\ UNCHANGED <<script, config, agents, dispatched, chat, result, console, routeVars, tool_calls, tool_ret_pc,
                 nested_last,
                 request, reportVars, analyzerVars>>

\* process_approval_request / get_missing_data: proxy.initiate_chat(agent, max_turns=1)
nested_initiate_chat ==
  /\ pc = "tool_run"
  /\ nested_agent(tool_name) # "none"
  /\ chat' = [chat EXCEPT ![nested_agent(tool_name)] = "active"]
  /\ pc' = after_initiate("tool_chat", "tool_chat_done")
  /\ UNCHANGED <<script, config, agents, dispatched, result, console, routeVars, toolVars,
                 request, reportVars, analyzerVars>>

nested_chat_complete(m) ==
  /\ pc = "tool_chat"
  /\ chat' = [chat EXCEPT ![nested_agent(tool_name)] = "done"]
  /\ nested_last' = m
  /\ pc' = "tool_chat_done"
  /\ UNCHANGED <<script, config, agents, dispatched, result, console, routeVars, tool_calls, tool_ret_pc,
                 tool_name, tool_arg, tool_result, toolLog,
                 request, reportVars, analyzerVars>>

nested_tool_return(fn, last_message) ==
  IF nested_agent(fn) = "approval" THEN process_approval_request(last_message)
  ELSE last_message

nested_tool_returns ==
  /\ pc = "tool_chat_done"
  /\ tool_result' = nested_tool_return(tool_name, nested_last)
  /\ toolLog' = Logged(nested_tool_return(tool_name, nested_last), console)
  /\ pc' = tool_ret_pc
  /\ tool_name' = ""
  /\ tool_arg' = <<>>
  /\ UNCHANGED <<script, config, agents, dispatched, chat, result, console, routeVars, tool_calls, tool_ret_pc,
                 nested_last,
                 request, reportVars, analyzerVars>>

\* A fresh object: agent_system = AgentSystem()
construct ==
  /\ pc = "idle"
  /\ toolLog # <<>>
  /\ chat' = NoChats
  /\ result' = NoResult
  /\ console' = <<>>
  /\ tool_ret_pc' = ""
  /\ tool_name' = ""
  /\ tool_arg' = <<>>
  /\ tool_result' = ""
  /\ nested_last' = <<>>
  /\ toolLog' = <<>>
  /\ UNCHANGED <<script, config, agents, dispatched, pc, routeVars, tool_calls,
                 request, reportVars, analyzerVars>>

----------------------------------------------------------------------------

Next ==
  \/ \E u \in UserInputs : route_and_resolve(u)
  \/ router_initiate_chat
  \/ \E r \in RouterReplies : router_chat_complete(r)
  \/ read_routing_path
  \/ clear_history
  \/ route_test
  \/ escalate_to_human_agent
  \/ specialist_initiate_chat
  \/ \E m \in AgentMessages : specialist_reply(m)
  \/ specialist_chat_complete
  \/ return_chat_result
  \/ return_unmatched
  \/ return_to_caller
  \/ \E fn \in ToolsOf(script) : \E arg \in ToolArgs(script, fn) : execute_function(fn, arg)
  \/ tool_returns
  \/ nested_initiate_chat
  \/ \E m \in HumanAnswers : nested_chat_complete(m)
  \/ nested_tool_returns
  \/ \E req \in ReportRequests : process_report_request(req)
  \/ orchestrator_initiate_chat
  \/ orchestrator_chat_complete
  \/ parse_report_request
  \/ \E info \in RequestInfos : create_contextual_report(info)
  \/ ccr_extract
  \/ ccr_collect
  \/ ccr_narrative
  \/ ccr_construct
  \/ ccr_append
  \/ ccr_return
  \/ format_report
  \/ \E req \in AnalysisRequests : process_analysis_request(req)
  \/ analysis_test
  \/ analysis_root_cause
  \/ analysis_return

Spec == Init /\ [][Next]_vars

\* The tool functions called one by one on a fresh object
NextTools ==
  \/ \E fn \in ToolsOf(script) : \E arg \in ToolArgs(script, fn) : call_tool(fn, arg)
  \/ tool_returns
  \/ escalate_to_human_agent
  \/ nested_initiate_chat
  \/ \E m \in HumanAnswers : nested_chat_complete(m)
  \/ nested_tool_returns
  \/ construct

SpecTools == Init /\ [][NextTools]_vars

----------------------------------------------------------------------------
(* Properties of route_and_resolve *)

\* A word occurs in a text in any letter case
\* Each capital letter with its small letter
SmallOf ==
  [c \in {UpperLetters[i] : i \in 1..Len(UpperLetters)} |->
     LowerLetters[CHOOSE i \in 1..Len(UpperLetters) : UpperLetters[i] = c]]

Folded(c) == IF c \in DOMAIN SmallOf THEN SmallOf[c] ELSE c

SameLetter(a, b) == Folded(a) = Folded(b)

OccursCI(word, text) ==
  \E i \in 1..(Len(text) - Len(word) + 1) :
     \A j \in 1..Len(word) : SameLetter(text[i + j - 1], word[j])

ExpectedHandler(reply) ==
  IF OccursCI(kw_human, reply) THEN "human"
  ELSE IF OccursCI(kw_vpn, reply) THEN "vpn"
  ELSE IF OccursCI(kw_change, reply) THEN "change_management"
  ELSE "none"

\* The downstream handlers the current request has reached
Invoked ==
  {h \in {"human"} : \E i \in 1..Len(console) : console[i] = RaisedTicketLine}
    \cup {c \in {"vpn", "change_management"} : chat[c] # "none"}

InVpnChat == pc \in {"rr_vpn_initiate", "rr_vpn_chat", "rr_vpn_return"}
InChangeChat == pc \in {"rr_cm_initiate", "rr_cm_chat", "rr_cm_return"}

\* C1: the handler chosen for a reply is escalation if "human" occurs in it in
\* any letter case, otherwise the VPN agent if "vpn" occurs, otherwise the
\* change-management agent if "change" occurs, otherwise none.
C1_RoutePriority ==
  script = "ticket" =>
    /\ pc = "rr_escalate" => ExpectedHandler(router_last) = "human"
    /\ InVpnChat => ExpectedHandler(router_last) = "vpn"
    /\ InChangeChat => ExpectedHandler(router_last) = "change_management"
    /\ pc = "rr_unmatched" => ExpectedHandler(router_last) = "none"
    /\ pc = "done" =>
         Invoked = {h \in {"human", "vpn", "change_management"} :
                      h = ExpectedHandler(router_last)}

C1_Witness ==
  /\ script = "ticket" /\ pc = "done"
  /\ OccursCI(kw_vpn, router_last) /\ OccursCI(kw_change, router_last)
  /\ Invoked = {"vpn"}

\* C2: a reply containing "human" in any letter case yields "TICKET_101" and
\* no chat with the VPN agent or the change-management agent is started, even
\* when the reply also contains "vpn" or "change".
C2_HumanEscalates ==
  (script = "ticket" /\ chat["router"] = "done" /\ OccursCI(kw_human, router_last)) =>
    /\ chat["vpn"] = "none"
    /\ chat["change_management"] = "none"
    /\ pc = "done" => result = [status |-> "returned", value |-> TICKET_101]

C2_Witness ==
  /\ script = "ticket" /\ pc = "done"
  /\ OccursCI(kw_human, router_last)
  /\ OccursCI(kw_vpn, router_last) \/ OccursCI(kw_change, router_last)
  /\ result.value = TICKET_101

\* C3 as claimed: whenever the reply contains the substring "vpn", the value
\* returned is the last message of a chat with the VPN agent.
C3_VpnAlways ==
  (script = "ticket" /\ pc = "done" /\ Contains(kw_vpn, router_last)) =>
    /\ chat["vpn"] = "done"
    /\ result = [status |-> "returned", value |-> chat_result[Len(chat_result)]]

\* C3 amended: whenever the reply contains "vpn" and does not contain "human"
\* (each in any letter case), the value returned is the content of the last
\* message of the chat started between the user proxy and the VPN agent.
C3_VpnUnlessHuman ==
  (script = "ticket" /\ pc = "done" /\ OccursCI(kw_vpn, router_last)
     /\ ~ OccursCI(kw_human, router_last)) =>
    /\ chat["vpn"] = "done"
    /\ chat_result[1] = user_input
    /\ result = [status |-> "returned", value |-> chat_result[Len(chat_result)]]

C3_Witness ==
  /\ script = "ticket" /\ pc = "done"
  /\ OccursCI(kw_vpn, router_last) /\ ~ OccursCI(kw_human, router_last)
  /\ Len(chat_result) = 3
  /\ result.value = chat_result[3]

\* C4 as claimed: whenever the reply contains the substring "change", the
\* value returned is the last message of a chat with the change-management
\* agent.
C4_ChangeAlways ==
  (script = "ticket" /\ pc = "done" /\ Contains(kw_change, router_last)) =>
    /\ chat["change_management"] = "done"
    /\ result = [status |-> "returned", value |-> chat_result[Len(chat_result)]]

\* C4 amended: whenever the reply contains "change" and contains neither
\* "human" nor "vpn" (each in any letter case), the value returned is the
\* content of the last message of the chat started between the user proxy and
\* the change-management agent.
C4_ChangeUnlessHumanOrVpn ==
  (script = "ticket" /\ pc = "done" /\ OccursCI(kw_change, router_last)
     /\ ~ OccursCI(kw_human, router_last) /\ ~ OccursCI(kw_vpn, router_last)) =>
    /\ chat["change_management"] = "done"
    /\ chat["vpn"] = "none"
    /\ chat_result[1] = user_input
    /\ result = [status |-> "returned", value |-> chat_result[Len(chat_result)]]

C4_Witness ==
  /\ script = "ticket" /\ pc = "done"
  /\ OccursCI(kw_change, router_last)
  /\ ~ OccursCI(kw_human, router_last) /\ ~ OccursCI(kw_vpn, router_last)
  /\ chat["change_management"] = "done"
  /\ result.value = chat_result[Len(chat_result)]

\* C5: a reply containing none of "human", "vpn" and "change" yields the fixed
\* sentence as an ordinary return value; nothing is escalated and no chat with
\* a specialist agent is started.
C5_UnmatchedSentence ==
  (script = "ticket" /\ chat["router"] = "done"
     /\ ExpectedHandler(router_last) = "none") =>
    /\ Invoked = {}
    /\ console = <<>>
    /\ \A c \in ChatIds \ {"router"} : chat[c] = "none"
    /\ result.status # "raised"
    /\ pc = "done" => result = [status |-> "returned", value |-> UnableToDetermine]

C5_Witness ==
  /\ script = "ticket" /\ pc = "done"
  /\ ExpectedHandler(router_last) = "none"
  /\ router_last # <<>>
  /\ result.value = UnableToDetermine

\* C6: one request reaches at most one of human escalation, the VPN agent chat
\* and the change-management agent chat.
C6_AtMostOneHandler ==
  script = "ticket" => Cardinality(Invoked) <= 1

C6_Witness ==
  /\ script = "ticket" /\ pc = "done"
  /\ Cardinality({k \in {kw_human, kw_vpn, kw_change} : OccursCI(k, router_last)}) >= 2
  /\ Cardinality(Invoked) = 1

----------------------------------------------------------------------------
(* Properties of the chats and of the tool functions *)

InRouteAfterRouterChat ==
  pc \in {"rr_read", "rr_clear", "rr_check_human", "rr_check_vpn", "rr_check_change",
          "rr_escalate", "rr_vpn_initiate", "rr_vpn_chat", "rr_vpn_return",
          "rr_cm_initiate", "rr_cm_chat", "rr_cm_return", "rr_unmatched"}

InReportBuild ==
  \/ pc \in {"pr_parse", "pr_format"}
  \/ pc \in {"ccr_extract", "ccr_collect", "ccr_narrative", "ccr_construct",
             "ccr_append", "ccr_return"} /\ ccr_ret_pc = "pr_format"

InAnalysisBuild == pc \in {"pa_check", "pa_root_cause", "pa_return", "pa_unmatched"}

\* C7: the router chat has completed before the routing decision is read and
\* before a specialist chat begins; the orchestrator chat has completed before
\* the report or the analysis is built; at most one top-level chat is in
\* progress at any time.
C7_SequentialChats ==
  /\ Cardinality({c \in TopLevelChats : chat[c] = "active"}) <= 1
  /\ (script = "ticket" /\ InRouteAfterRouterChat) => chat["router"] = "done"
  /\ (chat["vpn"] # "none" \/ chat["change_management"] # "none")
       => chat["router"] = "done"
  /\ (script = "report" /\ InReportBuild) => chat["orchestrator"] = "done"
  /\ (script = "analyzer" /\ InAnalysisBuild) => chat["orchestrator"] = "done"

C7_Witness ==
  /\ script = "ticket" /\ pc = "tool_chat"
  /\ chat["router"] = "done" /\ chat["vpn"] = "active" /\ chat["approval"] = "active"

\* The functions that return data without talking to an agent
MockDataFunctions == {fn \in ToolsOf(script) : nested_agent(fn) = "none"}

ArgumentDependent ==
  CASE script = "ticket" -> {"check_and_fetch_employee_status"}
    [] script = "report" -> {"get_user_context", "generate_visualizations", "fetch_logs_data"}
    [] script = "analyzer" -> {"analyze_dependency_health", "fetch_logs_data"}

\* C8 as claimed: every mock data function returns the same value for every
\* argument value it is called with.
C8_AllUnconditional ==
  \A i, j \in 1..Len(toolLog) :
     (toolLog[i].fn = toolLog[j].fn /\ toolLog[i].fn \in MockDataFunctions)
       => toolLog[i].ret = toolLog[j].ret

\* C8 amended: every mock data function returns the same value for every
\* argument value, except check_and_fetch_employee_status (ticket_deflection),
\* get_user_context, generate_visualizations and fetch_logs_data
\* (adaptive_dashboards), analyze_dependency_health and fetch_logs_data
\* (dependency_analyzer), whose value is selected by or echoes the argument.
C8_UnconditionalExceptSix ==
  \A i, j \in 1..Len(toolLog) :
     (toolLog[i].fn = toolLog[j].fn /\ toolLog[i].fn \in MockDataFunctions
        /\ toolLog[i].fn \notin ArgumentDependent)
       => toolLog[i].ret = toolLog[j].ret

C8_Witness ==
  /\ Len(toolLog) = 2
  /\ toolLog[1].fn = "create_jira_ticket" /\ toolLog[2].fn = "create_jira_ticket"
  /\ toolLog[1].arg # toolLog[2].arg
  /\ toolLog[1].ret = toolLog[2].ret

ObjectUntouched ==
  report_history = <<>> /\ user_preferences = <<>> /\ dependency_cache = <<>>

\* C9 as claimed: apart from escalate_to_human_agent, calling a tool function
\* starts no agent chat, prints nothing and leaves the object's attributes
\* unchanged.
C9_NoToolStartsChat ==
  /\ ObjectUntouched
  /\ \A i \in 1..Len(toolLog) :
       toolLog[i].fn # "escalate_to_human_agent"
         => toolLog[i].chats = {} /\ toolLog[i].printed = <<>>

\* C9 amended: apart from escalate_to_human_agent, which prints, and from
\* send_approval_request, send_approval_request_for_change and
\* get_missing_data, which start a one-turn chat of the user proxy with the
\* approval agent (the first two) or the form filler agent, calling a tool
\* function starts no agent chat, prints nothing and leaves the object's
\* attributes unchanged.
C9_OnlyThreeToolsChat ==
  /\ ObjectUntouched
  /\ (pc = "idle" /\ toolLog = <<>>) => (chat = NoChats /\ console = <<>>)
  /\ \A i \in 1..Len(toolLog) :
       LET e == toolLog[i] IN
         /\ e.fn \in {"send_approval_request", "send_approval_request_for_change"}
              => e.chats = {"approval"}
         /\ e.fn = "get_missing_data" => e.chats = {"form_filler"}
         /\ e.fn = "escalate_to_human_agent"
              => e.chats = {} /\ e.printed = <<RaisedTicketLine>>
         /\ e.fn \notin {"send_approval_request", "send_approval_request_for_change",
                         "get_missing_data", "escalate_to_human_agent"}
              => e.chats = {} /\ e.printed = <<>>

C9_Witness ==
  /\ Len(toolLog) = 2
  /\ toolLog[1].fn = "send_approval_request" /\ toolLog[1].chats = {"approval"}
  /\ toolLog[2].fn = "create_jira_ticket" /\ toolLog[2].chats = {}

----------------------------------------------------------------------------
(* Properties of the reporting example *)

\* C10: no report request ends in a raised failure: create_contextual_report
\* returns a report and process_report_request a formatted report, for every
\* request and every user_role.
C10_NoReportRaises ==
  (script = "report" /\ pc = "done") => result.status = "returned"

----------------------------------------------------------------------------
(* Properties of the reporting system *)

RequestKeys == {"user_role", "report_type", "timeframe", "focus_areas"}

DefaultOf(key) ==
  CASE key = "user_role" -> "dev_team"
    [] key = "report_type" -> "status"
    [] key = "timeframe" -> "last_24h"
    [] key = "focus_areas" -> <<"service_health">>

Extracted == script = "report" /\ ccr_locals # <<>>
Collected == Extracted /\ "visualizations" \in DOMAIN ccr_locals

\* C11: create_contextual_report reads each of user_role, report_type,
\* timeframe and focus_areas from request_info when the key is there and takes
\* "dev_team", "status", "last_24h" and ["service_health"] when it is not, and a
\* user_role other than dev_team, ops_team, business and executive is given the
\* dev_team profile, whose visualizations the report then carries.
C11_DefaultsUsed ==
  /\ Extracted =>
        \A key \in RequestKeys :
          ccr_locals[key] = IF key \in DOMAIN request_info THEN request_info[key]
                            ELSE DefaultOf(key)
  /\ (Collected /\ ccr_locals["user_role"] \notin DOMAIN user_contexts) =>
        ccr_locals["visualizations"] =
          generate_visualizations(<<>>, user_contexts["dev_team"]["preferred_visualization"])

C11_Witness ==
  /\ Collected
  /\ request_info = [user_role |-> "guest"]
  /\ ccr_locals["user_role"] = "guest"
  /\ ccr_locals["report_type"] = "status"
  /\ ccr_locals["focus_areas"] = <<"service_health">>
  /\ ccr_locals["visualizations"] # <<>>

----------------------------------------------------------------------------
(* Properties of the tool functions *)

ApprovalTools == {fn \in TicketTools : nested_agent(fn) = "approval"}

\* The direct call that returned last, while nothing else has been called
LastCall == toolLog[Len(toolLog)]
ApprovalReturned ==
  /\ script = "ticket"
  /\ pc = "idle"
  /\ toolLog # <<>>
  /\ LastCall.fn \in ApprovalTools

\* C13: process_approval_request returns "Approved" or "Rejected", and
\* "Approved" exactly when the approval agent's last message contains
\* "approved" in some letter case.
C13_ApprovedIffSaid ==
  ApprovalReturned =>
    /\ LastCall.ret \in {"Approved", "Rejected"}
    /\ LastCall.ret = tool_result
    /\ (LastCall.ret = "Approved") <=> OccursCI(kw_approved, nested_last)

C13_Witness ==
  /\ ApprovalReturned
  /\ nested_last = <<"A","p","p","r","o","v","e","d">>
  /\ LastCall.ret = "Approved"
  /\ LastCall.chats = {"approval"}

----------------------------------------------------------------------------
(* Properties of the prescribed replies *)

\* C14: of the three replies the orchestrator system message prescribes, the
\* one naming the VPN agent starts the VPN chat and no other handler, the one
\* naming the change-management agent starts the change-management chat and no
\* other handler, and the one naming the human agent escalates and starts no
\* chat; none of them reaches the "Unable to determine" return.
C14_PrescribedRepliesRouted ==
  (script = "ticket" /\ router_last \in PrescribedReplies) =>
    /\ pc # "rr_unmatched"
    /\ pc = "done" =>
         /\ result.value # UnableToDetermine
         /\ router_last = ReplyVpn => Invoked = {"vpn"}
         /\ router_last = ReplyChange => Invoked = {"change_management"}
         /\ router_last = ReplyHuman =>
              Invoked = {"human"} /\ result = Returned(TICKET_101)

C14_Witness ==
  /\ script = "ticket"
  /\ pc = "done"
  /\ router_last = ReplyChange
  /\ chat["change_management"] = "done"
  /\ chat["vpn"] = "none"
  /\ result.status = "returned"

----------------------------------------------------------------------------
(* Properties of the dependency analyzer *)

Edge(dep) == <<dep["source"], dep["target"]>>
Edges(deps) == {Edge(deps[i]) : i \in 1..Len(deps)}
CurrentEdges == Edges(analyzer_fetch_topology_data["dependencies"])

IsDetect(entry) == script = "analyzer" /\ entry.fn = "detect_topology_changes"

NoChanges(changes) ==
  /\ changes["new_services"] = <<>>
  /\ changes["removed_services"] = <<>>
  /\ changes["new_dependencies"] = <<>>
  /\ changes["changed_dependencies"] = <<>>

\* C15: every dependency detect_topology_changes reports as new or changed is
\* a dependency of the topology fetch_topology_data returns, and a call that
\* follows another call, with the topology the same for both, reports no new,
\* removed or changed item.
C15_ChangesFromTopology ==
  \A i \in 1..Len(toolLog) :
    IsDetect(toolLog[i]) =>
      /\ Edges(toolLog[i].ret["new_dependencies"]) \subseteq CurrentEdges
      /\ Edges(toolLog[i].ret["changed_dependencies"]) \subseteq CurrentEdges
      /\ (i > 1 /\ IsDetect(toolLog[i - 1])) => NoChanges(toolLog[i].ret)

----------------------------------------------------------------------------
(* Properties of report_history *)

IsPrefix(a, b) == Len(a) <= Len(b) /\ \A i \in 1..Len(a) : b[i] = a[i]

\* C16: the k-th entry of report_history carries report_id k, so ids start at
\* 1, are unique and increase by one; and every step leaves the entries
\* already recorded in place and unaltered, adding at most one at the end.
C16_HistoryIdsArePositions ==
  /\ [](\A k \in 1..Len(report_history) : report_history[k]["report_id"] = k)
  /\ [][ /\ IsPrefix(report_history, report_history')
         /\ Len(report_history') <= Len(report_history) + 1 ]_vars

C16_Witness ==
  /\ script = "report"
  /\ pc = "ccr_return"
  /\ Len(report_history) = 2
  /\ report_history[1]["report_id"] = 1
  /\ report_history[2]["report_id"] = 2
  /\ report_history[1]["request_info"] # report_history[2]["request_info"]

----------------------------------------------------------------------------
(* Properties of process_report_request *)

ExecutiveWords(req) == OccursCI(kw_executive, req) \/ OccursCI(kw_business, req)
OperationsWords(req) == OccursCI(kw_operations, req) \/ OccursCI(kw_ops, req)

ExpectedRole(req) ==
  IF ExecutiveWords(req) THEN "executive"
  ELSE IF OperationsWords(req) THEN "ops_team"
  ELSE "dev_team"

\* process_report_request has built request_info from the request
RequestParsed == script = "report" /\ ccr_ret_pc = "pr_format"

\* C17: the user_role process_report_request puts in request_info is
\* "executive" when the request contains "executive" or "business" in any
\* letter case, otherwise "ops_team" when it contains "operations" or "ops",
\* otherwise "dev_team"; a request with keywords of both kinds is executive.
C17_RoleByKeywordPriority ==
  RequestParsed =>
    /\ request_info["user_role"] \in {"executive", "ops_team", "dev_team"}
    /\ request_info["user_role"] = ExpectedRole(request)
    /\ request_info["focus_areas"][1] = focus_of_role(ExpectedRole(request))[1]

C17_Witness ==
  /\ RequestParsed
  /\ ExecutiveWords(request)
  /\ OperationsWords(request)
  /\ request_info["user_role"] = "executive"

----------------------------------------------------------------------------
(* Properties of process_analysis_request *)

CheckoutLatency(req) == OccursCI(kw_checkout, req) /\ OccursCI(kw_latency, req)

OnlyOrchestratorChat(status) ==
  \A c \in ChatIds : chat[c] = IF c = "orchestrator" THEN status ELSE "none"

\* C18: process_analysis_request does nothing before its one chat with the
\* orchestrator, which has ended when the request is tested and is the only
\* chat of the call; it returns the simulated analysis, having called
\* analyze_root_cause, exactly when the request contains "checkout" and
\* "latency" in any letter case, and the fixed "Could not determine" sentence,
\* having called nothing, otherwise.
C18_AnalysisIffCheckoutLatency ==
  script = "analyzer" =>
    /\ pc = "pa_initiate" => OnlyOrchestratorChat("none") /\ root_cause = <<>>
    /\ pc = "pa_orch_chat" => OnlyOrchestratorChat("active") /\ root_cause = <<>>
    /\ InAnalysisBuild => OnlyOrchestratorChat("done")
    /\ pc = "pa_root_cause" => CheckoutLatency(request)
    /\ pc = "pa_unmatched" => ~ CheckoutLatency(request)
    /\ pc = "done" =>
         /\ OnlyOrchestratorChat("done")
         /\ IF CheckoutLatency(request)
            THEN /\ result = Returned(AnalysisResponse)
                 /\ root_cause = analyze_root_cause(
                      [service |-> "checkout", issue |-> "latency", severity |-> "medium"])
            ELSE /\ result = Returned(CouldNotDetermine)
                 /\ root_cause = <<>>

C18_Witness ==
  /\ script = "analyzer"
  /\ pc = "done"
  /\ request = <<"C","h","e","c","k","o","u","t"," ","L","a","t","e","n","c","y">>
  /\ result = Returned(AnalysisResponse)
  /\ chat["orchestrator"] = "done"

----------------------------------------------------------------------------
(* Properties of the reporting system's fetch_logs_data *)

\* fetch_logs_data was called directly and has just returned
LogsReturned ==
  /\ script = "report"
  /\ pc = "idle"
  /\ toolLog # <<>>
  /\ LastCall.fn = "fetch_logs_data"

MentionsAny(log, terms) ==
  \E t \in 1..Len(terms) : OccursCI(terms[t], log["message"])

\* The sample entries that mention a term, in the order of sample_logs
ExpectedLogs(terms) ==
  LET Keep(log) == MentionsAny(log, terms) IN SelectSeq(sample_logs, Keep)

Entries(logs) == {logs[i] : i \in 1..Len(logs)}

\* The result with one more term in filter_terms keeps every entry
KeptWithOneMore(entry, terms) ==
  \A t \in FilterTerms :
    Entries(entry.ret) \subseteq
      Entries(fetch_logs_data(entry.arg[1], entry.arg[2], Some(Append(terms, t))))

FilterResultExact(entry) ==
  LET filter_terms == entry.arg[3] IN
  IF filter_terms.is_none \/ filter_terms.value = <<>>
  THEN entry.ret = sample_logs
  ELSE entry.ret = ExpectedLogs(filter_terms.value)

\* C19 as claimed: fetch_logs_data returns the sample entries that mention a
\* term, in order, or all five without terms, and adding a term to any
\* filter_terms list, the empty one included, removes no entry of the result.
C19_AddingTermNeverRemoves ==
  LogsReturned =>
    /\ FilterResultExact(LastCall)
    /\ ~ LastCall.arg[3].is_none => KeptWithOneMore(LastCall, LastCall.arg[3].value)

\* C19 amended: fetch_logs_data returns, for a non-empty filter_terms, exactly
\* the sample entries whose message contains one of the terms without regard
\* to case, in their original order, and all five entries for None or an empty
\* list; adding a term to a non-empty filter_terms removes no entry.
C19_AddingTermToNonEmptyNeverRemoves ==
  LogsReturned =>
    /\ FilterResultExact(LastCall)
    /\ (~ LastCall.arg[3].is_none /\ LastCall.arg[3].value # <<>>) =>
         KeptWithOneMore(LastCall, LastCall.arg[3].value)

C19_Witness ==
  /\ LogsReturned
  /\ LastCall.arg[3] = Some(<< <<"T","I","M","E","O","U","T">>, <<"r","e","t","r","y","i","n","g">> >>)
  /\ LastCall.ret = <<sample_logs[1], sample_logs[2], sample_logs[3], sample_logs[5]>>

----------------------------------------------------------------------------
(* Properties of the approval chat *)

ApprovalToolOf(agent) ==
  IF agent = "vpn" THEN "send_approval_request" ELSE "send_approval_request_for_change"

\* The specialist chat a tool call was made in
CallingSpecialist == SpecialistOf(tool_ret_pc)

\* C20: while route_and_resolve runs, the approval chat is active only inside
\* a call of send_approval_request made in the VPN chat or of
\* send_approval_request_for_change made in the change-management chat, with
\* that specialist chat started and not yet ended; once the specialist chat
\* has ended no approval chat is active, and on the human-escalation path and
\* the unmatched path no approval chat was ever started.
C20_ApprovalInsideSpecialist ==
  script = "ticket" =>
    /\ chat["approval"] = "active" =>
         /\ pc = "tool_chat"
         /\ tool_ret_pc \in {"rr_vpn_chat", "rr_cm_chat"}
         /\ tool_name = ApprovalToolOf(CallingSpecialist)
         /\ chat[CallingSpecialist] = "active"
         /\ chat["router"] = "done"
    /\ chat["approval"] # "none" =>
         /\ \E c \in {"vpn", "change_management"} : chat[c] # "none"
         /\ ExpectedHandler(router_last) \in {"vpn", "change_management"}
    /\ pc \in {"rr_vpn_return", "rr_cm_return", "done"} => chat["approval"] # "active"
    /\ (pc \in {"rr_escalate", "rr_unmatched"}
          \/ (pc = "done" /\ ExpectedHandler(router_last) \in {"human", "none"})) =>
         chat["approval"] = "none"

C20_Witness ==
  /\ script = "ticket"
  /\ pc = "tool_chat"
  /\ chat["approval"] = "active"
  /\ chat["change_management"] = "active"
  /\ tool_name = "send_approval_request_for_change"

----------------------------------------------------------------------------
(* Properties of the clearing of the user proxy's history *)

BeforeClear == pc \in {"rr_initiate", "rr_router_chat", "rr_read", "rr_clear"}

\* C21: in a call of route_and_resolve, user_proxy.clear_history() has not run
\* while the router chat is to come or in progress or its reply is being
\* read, runs with the router chat ended and routing_path read from its reply,
\* and has run exactly once at every later point of each of the four paths;
\* no handler is reached and nothing is returned before it, and the reply is
\* read only before it.
C21_ClearedOnceBeforeHandler ==
  (script = "ticket" /\ pc # "idle") =>
    /\ cleared \in {0, 1}
    /\ BeforeClear <=> cleared = 0
    /\ pc = "rr_read" => chat["router"] = "done" /\ cleared = 0
    /\ pc = "rr_clear" =>
         chat["router"] = "done" /\ routing_path = routing_path_of(router_last)
    /\ cleared = 0 =>
         /\ Invoked = {}
         /\ result = NoResult
         /\ pc \notin {"rr_escalate", "rr_vpn_initiate", "rr_cm_initiate", "rr_unmatched"}

C21_Witness ==
  /\ script = "ticket"
  /\ pc = "rr_vpn_chat"
  /\ cleared = 1
  /\ chat["router"] = "done"
  /\ chat["vpn"] = "active"
  /\ routing_path = routing_path_of(router_last)

----------------------------------------------------------------------------
(* Properties of report_history across one call *)

InReportCall ==
  script = "report" /\ pc \notin {"idle", "tool_run", "tool_chat", "tool_chat_done"}

Appended == pc \in {"ccr_return", "pr_format"} \/ result.status = "returned"

\* C22: a call of create_contextual_report that raises leaves report_history
\* as it was when the call was made; a call that returns a report has added
\* exactly one entry at the end, holding the user_role the report was built
\* for and the request_info it was given; until then the call adds nothing.
C22_HistoryUntouchedOnRaise ==
  InReportCall =>
    /\ result.status = "raised" => report_history = history_before
    /\ Appended =>
         /\ Len(report_history) = Len(history_before) + 1
         /\ IsPrefix(history_before, report_history)
         /\ report_history[Len(report_history)]["user_role"] = ccr_locals["user_role"]
         /\ report_history[Len(report_history)]["request_info"] = request_info
    /\ ~ Appended => report_history = history_before

C22_Witness ==
  /\ InReportCall
  /\ result.status = "raised"
  /\ history_before # <<>>
  /\ report_history = history_before
  /\ "narrative" \in DOMAIN ccr_locals

----------------------------------------------------------------------------
(* Properties of route_and_resolve across two calls *)

\* The replies of an earlier call that later calls are compared with: the
\* prescribed ones and every one-word reply (each handler and no handler occur)
ComparedReplies == PrescribedReplies \cup { Concat(<<t>>) : t \in ReplyTokens } \cup {<<>>}

\* Keeps one finished call of route_and_resolve for comparison with later ones
record_dispatch ==
  /\ script = "ticket"
  /\ pc = "done"
  /\ dispatched = <<>>
  /\ router_last \in ComparedReplies
  /\ dispatched' = [user_input |-> user_input, reply |-> router_last, handler |-> Invoked]
  /\ UNCHANGED <<script, config, agents, pc, chat, result, console, routeVars, toolVars,
                 request, reportVars, analyzerVars>>

\* Calls of route_and_resolve one after the other on one object, with agents
\* that answer without calling tools
NextRoute ==
  \/ \E u \in UserInputs : route_and_resolve(u)
  \/ router_initiate_chat
  \/ \E r \in RouterReplies : router_chat_complete(r)
  \/ read_routing_path
  \/ clear_history
  \/ route_test
  \/ escalate_to_human_agent
  \/ specialist_initiate_chat
  \/ \E m \in AgentMessages : specialist_reply(m)
  \/ specialist_chat_complete
  \/ return_chat_result
  \/ return_unmatched
  \/ record_dispatch
  \/ return_to_caller

SpecRoute == Init /\ [][NextRoute]_vars

SameReplyAsRecorded ==
  /\ script = "ticket"
  /\ dispatched # <<>>
  /\ pc = "done"
  /\ router_last = dispatched["reply"]

\* C23: a call of route_and_resolve whose router reply equals that of an
\* earlier call reaches the handler the earlier call reached, whatever the
\* user_input of either call and whether or not it contains "human", "vpn" or
\* "change".
C23_SameReplySameHandler ==
  SameReplyAsRecorded => Invoked = dispatched["handler"]

C23_Witness ==
  /\ SameReplyAsRecorded
  /\ user_input # dispatched["user_input"]
  /\ OccursCI(kw_vpn, user_input)
  /\ OccursCI(kw_human, dispatched["user_input"])
  /\ Invoked = {"change_management"}
  /\ dispatched["handler"] = {"change_management"}

====
